---- MODULE Spec2Model ----
(***************************************************************************)
(* Model of generate_ground_truth_richdem.py: the derivation of terrain    *)
(* attributes from a DEM with RichDEM (get_terrain_attribute_richdem) and  *)
(* the loop that writes one raster file per attribute                      *)
(* (generate_ground_truth_richdem, run by the script's main block).        *)
(*                                                                         *)
(* Floating-point numbers are fixed-point integers in thousandths          *)
(* (Scale = 1000): 1.5 is 1500, 45 degrees is 45000, pi radians is 3142.   *)
(* Arrays are flat sequences of cells; all operations of the code on       *)
(* arrays are elementwise.                                                 *)
(***************************************************************************)
EXTENDS Integers, Sequences, FiniteSets, TLC

VARIABLES
    pc,                   \* control point of the running function
    dem,                  \* the DEM argument
    attribute,            \* argument attribute: a name or a list of names
    degrees,              \* argument degrees
    hillshade_altitude,   \* argument hillshade_altitude
    hillshade_azimuth,    \* argument hillshade_azimuth
    hillshade_z_factor,   \* argument hillshade_z_factor
    terrain_attributes,   \* the local dictionary of intermediates
    ret,                  \* what the last call returned or raised
    attribute_dict,       \* argument attribute_dict of the generator
    idx,                  \* position of the generator's loop in attribute_dict
    files,                \* files written in save_dir by this run
    events                \* history: the operations performed, in order

vars == <<pc, dem, attribute, degrees, hillshade_altitude, hillshade_azimuth,
          hillshade_z_factor, terrain_attributes, ret, attribute_dict, idx,
          files, events>>

---------------------------------------------------------------------------
(* Bounds of the model.                                                    *)

\* Number of cells of the DEM raster.
NCells == 1
\* Longest list of attribute names requested in one call.
MaxAttrs == 2

---------------------------------------------------------------------------
(* Numbers.                                                                *)

\* Fixed-point unit: a float x is the integer x * Scale.
Scale == 10 ^ 3

\* np.pi
Pi == 3142

\* np.nan: a value distinct from every number, absorbing in arithmetic and
\* unequal to every number in comparisons.
NaN == 0 - 1000000000

\* The no_data value of an rdarray returned by RichDEM (-9999).
RdNoData == 0 - 9999 * Scale

\* nodata=-99999 of the output rasters.
OutNoData == 0 - 99999 * Scale

\* np.deg2rad
Deg2Rad(d) == IF d = NaN THEN NaN ELSE (d * Pi) \div (180 * Scale)

\* np.rad2deg: r * 180 / pi, the whole turns of pi apart from the rest so
\* that the product stays a machine integer.
Rad2Deg(r) ==
    IF r = NaN THEN NaN
    ELSE (r \div Pi) * (180 * Scale) + ((r % Pi) * 180 * Scale) \div Pi

\* Taylor series of the sine on [0, pi/2].
SinQ(x) ==
    LET x2 == (x * x) \div Scale
        t3 == (x * x2) \div (6 * Scale)
        t5 == (t3 * x2) \div (20 * Scale)
        t7 == (t5 * x2) \div (42 * Scale)
        t9 == (t7 * x2) \div (72 * Scale)
    IN  x - t3 + t5 - t7 + t9

\* np.sin
Sin(x) ==
    LET r == x % (2 * Pi)
        h == IF r >= Pi THEN r - Pi ELSE r
        q == IF 2 * h > Pi THEN Pi - h ELSE h
        s == IF SinQ(q) > Scale THEN Scale ELSE SinQ(q)
    IN  IF r >= Pi THEN 0 - s ELSE s

\* np.cos
Cos(x) == Sin(x + Pi \div 2)

\* np.tan on [0, pi/2): unbounded as the cosine vanishes.
Tan(x) == IF Cos(x) <= 0 THEN 1000000 ELSE (Sin(x) * Scale) \div Cos(x)

\* Bisection for the arctangent of y >= 0: the largest angle of [lo, hi)
\* whose tangent does not exceed y.
RECURSIVE ArcTanBisect(_, _, _)
ArcTanBisect(y, lo, hi) ==
    IF hi - lo <= 1 THEN lo
    ELSE LET mid == (lo + hi) \div 2
         IN  IF Tan(mid) <= y THEN ArcTanBisect(y, mid, hi)
             ELSE ArcTanBisect(y, lo, mid)

\* np.arctan
ArcTan(y) ==
    IF y >= 0 THEN ArcTanBisect(y, 0, Pi \div 2 + 1)
    ELSE 0 - ArcTanBisect(0 - y, 0, Pi \div 2 + 1)

\* np.clip(x, lo, hi); NaN stays NaN.
Clip(x, lo, hi) ==
    IF x = NaN THEN NaN ELSE IF x < lo THEN lo ELSE IF x > hi THEN hi ELSE x

\* .astype("float32"): a float32 keeps 24 significant bits.
AsFloat32(x) ==
    IF x = NaN THEN NaN
    ELSE LET a == IF x < 0 THEN 0 - x ELSE x
             r == IF a < 16777216 THEN a ELSE (a \div 2) * 2
         IN  IF x < 0 THEN 0 - r ELSE r

---------------------------------------------------------------------------
(* The DEM and what RichDEM derives from it.                               *)

\* The names the dependency lookup of get_terrain_attribute_richdem tests.
AttributeNames ==
    <<"slope", "aspect", "hillshade", "curvature", "planform_curvature",
      "profile_curvature", "maximum_curvature">>

\* Slopes RichDEM may return for a cell (radians): flat, 30 and 60 degrees.
SlopeSamples == {0, 524, 1047}

\* Aspects RichDEM may return for a cell (degrees).
AspectSamples == {90 * Scale, 135 * Scale}

\* One cell of a DEM, as the values rd.TerrainAttribute derives for it.
\* A cell may be no-data for the slope, for the aspect, or for both; its
\* curvatures are no-data when its slope is.
CellSamples ==
    { [slope_radians      |-> s,
       aspect             |-> a,
       curvature          |-> IF s = RdNoData THEN RdNoData ELSE 2500,
       planform_curvature |-> IF s = RdNoData THEN RdNoData ELSE 0 - 1200,
       profile_curvature  |-> IF s = RdNoData THEN RdNoData ELSE 3700] :
      s \in SlopeSamples \cup {RdNoData},
      a \in AspectSamples \cup {RdNoData} }

\* The DEM arguments: geoutils Rasters, and objects of another type.
DemSamples ==
    { [isRaster |-> b, cells |-> c] :
      b \in BOOLEAN, c \in [1..NCells -> CellSamples] }

\* rd.TerrainAttribute(rda, attrib=attribute) on the rdarray of the raster.
TerrainAttribute(rst, attrib) ==
    [i \in 1..Len(rst.cells) |-> rst.cells[i][attrib]]

get_terrainattr_richdem(rst, attrib) ==
    LET terrattr == TerrainAttribute(rst, attrib)
    IN  [i \in 1..Len(terrattr) |->
            IF terrattr[i] = RdNoData THEN NaN ELSE terrattr[i]]

---------------------------------------------------------------------------
(* get_terrain_attribute_richdem, block by block.                          *)

\* A dictionary with no key.
EmptyDict == [k \in {} |-> <<>>]

\* d[k] = v
Put(d, k, v) == [x \in DOMAIN d \cup {k} |-> IF x = k THEN v ELSE d[x]]

\* attr in attribute, for a list
In(attr, list) == \E i \in 1..Len(list) : list[i] = attr

\* An attribute argument is a name (isStr) or a list of names.
Str(name) == [isStr |-> TRUE, names |-> <<name>>]
List(names) == [isStr |-> FALSE, names |-> names]

\* if isinstance(attribute, str): attribute = [attribute]
Normalise(attr) == IF attr.isStr THEN List(attr.names) ELSE attr

\* Faulty variant of NotRaster: the type check is left out.
NotRasterUnchecked(d) == FALSE

\* not isinstance(dem, gu.Raster)
NotRaster(d) == ~d.isRaster

make_aspect(attr) == \E a \in {"aspect", "hillshade"} : In(a, attr.names)

\* Faulty variant of make_slope: the slope is made only when it is itself requested.
make_slope_own(attr) == In("slope", attr.names)

make_slope(attr) ==
    \E a \in {"slope", "hillshade", "planform_curvature", "aspect",
              "profile_curvature", "maximum_curvature"} : In(a, attr.names)

make_hillshade(attr) == In("hillshade", attr.names)

make_curvature(attr) == In("curvature", attr.names)

make_planform_curvature(attr) ==
    In("planform_curvature", attr.names) \/ In("maximum_curvature", attr.names)

make_profile_curvature(attr) ==
    In("profile_curvature", attr.names) \/ In("maximum_curvature", attr.names)

StepSlope(ta, d, attr) ==
    IF make_slope(attr)
    THEN Put(ta, "slope", get_terrainattr_richdem(d, "slope_radians"))
    ELSE ta

\* Faulty variant of AspectCell: RichDEM's aspect is kept on flat cells.
AspectCellRichDEM(aspect_deg, slope_tmp) == Deg2Rad(aspect_deg)

\* The aspect of one cell: RichDEM's, in radians, and pi where the slope is 0.
AspectCell(aspect_deg, slope_tmp) ==
    IF slope_tmp = 0 THEN Pi ELSE Deg2Rad(aspect_deg)

StepAspect(ta, d, attr) ==
    IF make_aspect(attr)
    THEN LET aspect    == get_terrainattr_richdem(d, "aspect")
             slope_tmp == get_terrainattr_richdem(d, "slope_radians")
         IN  Put(ta, "aspect",
                 [i \in 1..Len(aspect) |-> AspectCell(aspect[i], slope_tmp[i])])
    ELSE ta

\* slopemap of one cell
SlopeMap(slope, z_factor) ==
    IF z_factor # 1 * Scale
    THEN IF slope = NaN THEN NaN
         ELSE ArcTan((Tan(slope) * z_factor) \div Scale)
    ELSE slope

\* The hillshade of one cell.
HillshadeCell(slope, aspect, altitude, azimuth, z_factor) ==
    LET slopemap     == SlopeMap(slope, z_factor)
        azimuth_rad  == Deg2Rad(360 * Scale - azimuth)
        altitude_rad == Deg2Rad(altitude)
    IN  IF slopemap = NaN \/ aspect = NaN THEN NaN
        ELSE AsFloat32(Clip(
                 (3 * Scale) \div 2
                 + 254 * ((Sin(altitude_rad) * Cos(slopemap)
                           + ((Cos(altitude_rad) * Sin(slopemap)) \div Scale)
                             * Sin(azimuth_rad - aspect)) \div Scale),
                 0, 255 * Scale))

\* terrain_attributes["slope"] or ["aspect"] is read and is not there.
HillshadeKeyError(ta, attr) ==
    make_hillshade(attr) /\ ~({"slope", "aspect"} \subseteq DOMAIN ta)

StepHillshade(ta, attr, altitude, azimuth, z_factor) ==
    IF make_hillshade(attr)
    THEN Put(ta, "hillshade",
             [i \in 1..Len(ta["slope"]) |->
                 HillshadeCell(ta["slope"][i], ta["aspect"][i],
                               altitude, azimuth, z_factor)])
    ELSE ta

StepCurvature(ta, d, attr) ==
    IF make_curvature(attr)
    THEN Put(ta, "curvature", get_terrainattr_richdem(d, "curvature"))
    ELSE ta

StepPlanformCurvature(ta, d, attr) ==
    IF make_planform_curvature(attr)
    THEN Put(ta, "planform_curvature",
             get_terrainattr_richdem(d, "planform_curvature"))
    ELSE ta

StepProfileCurvature(ta, d, attr) ==
    IF make_profile_curvature(attr)
    THEN Put(ta, "profile_curvature",
             get_terrainattr_richdem(d, "profile_curvature"))
    ELSE ta

\* Faulty variant of ConvertedKeys: every intermediate is converted.
ConvertedKeysAll ==
    {"slope", "aspect", "hillshade", "curvature", "planform_curvature",
     "profile_curvature"}

\* The keys the unit conversion touches.
ConvertedKeys == {"slope", "aspect"}

ConvertUnit(ta, deg) ==
    IF deg
    THEN [k \in DOMAIN ta |->
             IF k \in ConvertedKeys
             THEN [i \in 1..Len(ta[k]) |-> Rad2Deg(ta[k][i])]
             ELSE ta[k]]
    ELSE ta

\* What a call ends with: a raised exception, one raster, or a list.
Raise(exc) == [kind |-> "raise", exc |-> exc, out |-> <<>>]
NoReturn == [kind |-> "none", exc |-> "", out |-> <<>>]

\* arr.reshape(dem.shape): the same cells in the same order.
Reshape(arr, d) == [i \in 1..Len(d.cells) |-> arr[i]]

\* gu.Raster.from_array(attr, transform=..., crs=..., nodata=-99999)
from_array(arr) == [data |-> arr, nodata |-> OutNoData]

\* The list comprehension over the requested keys, the wrapping and the
\* return statement.
Output(ta, d, attr) ==
    IF \E i \in 1..Len(attr.names) : attr.names[i] \notin DOMAIN ta
    THEN Raise("KeyError")
    ELSE IF Len(attr.names) = 0 THEN Raise("IndexError")
    ELSE LET output_attributes ==
                 [i \in 1..Len(attr.names) |-> Reshape(ta[attr.names[i]], d)]
             wrapped ==
                 IF ~NotRaster(d)
                 THEN [i \in 1..Len(attr.names) |->
                          from_array(output_attributes[i])]
                 ELSE output_attributes
         IN  [kind |-> IF Len(wrapped) > 1 THEN "list" ELSE "single",
              exc  |-> "",
              out  |-> wrapped]

\* The whole call, as one function of its arguments.
get_terrain_attribute_richdem(d, attr0, deg, altitude, azimuth, z_factor) ==
    LET attr == Normalise(attr0)
    IN  IF NotRaster(d) THEN Raise("ValueError")
        ELSE LET t1 == StepSlope(EmptyDict, d, attr)
                 t2 == StepAspect(t1, d, attr)
             IN  IF HillshadeKeyError(t2, attr) THEN Raise("KeyError")
                 ELSE LET t3 == StepHillshade(t2, attr, altitude, azimuth,
                                              z_factor)
                          t4 == StepCurvature(t3, d, attr)
                          t5 == StepPlanformCurvature(t4, d, attr)
                          t6 == StepProfileCurvature(t5, d, attr)
                          t7 == ConvertUnit(t6, deg)
                      IN  Output(t7, d, attr)

---------------------------------------------------------------------------
(* One call of get_terrain_attribute_richdem, step by step.                *)

\* Lists of distinct names, in the order of AttributeNames, of at most
\* MaxAttrs names.
ListSamples ==
    { [i \in 1..Len(s) |-> AttributeNames[s[i]]] :
      s \in { t \in UNION { [1..n -> 1..Len(AttributeNames)] : n \in 0..MaxAttrs } :
              \A i \in 1..(Len(t) - 1) : t[i] < t[i + 1] } }

\* The attribute arguments: every name alone, and the lists.
AttributeSamples ==
    { Str(AttributeNames[i]) : i \in 1..Len(AttributeNames) }
    \cup { List(l) : l \in ListSamples }

AltitudeSamples == {45 * Scale, 30 * Scale}
AzimuthSamples  == {315 * Scale, 135 * Scale}
ZFactorSamples  == {1 * Scale, 2 * Scale}

\* The generator is not running during a direct call.
NoGenerator ==
    /\ attribute_dict = <<>>
    /\ idx = 0
    /\ files = EmptyDict

Init ==
    /\ pc = "enter"
    /\ dem \in DemSamples
    /\ attribute \in AttributeSamples
    /\ degrees \in BOOLEAN
    /\ hillshade_altitude \in AltitudeSamples
    /\ hillshade_azimuth \in AzimuthSamples
    /\ hillshade_z_factor \in ZFactorSamples
    /\ terrain_attributes = EmptyDict
    /\ ret = NoReturn
    /\ events = <<>>
    /\ NoGenerator

\* One call of get_terrainattr_richdem, in the history.
Rd(attrib) == [op |-> "rd", key |-> attrib]

args == <<dem, degrees, hillshade_altitude, hillshade_azimuth,
          hillshade_z_factor>>
gen == <<attribute_dict, idx, files>>

\* The str-to-list normalisation and the type check.
Enter ==
    /\ pc = "enter"
    /\ attribute' = Normalise(attribute)
    /\ IF NotRaster(dem)
       THEN /\ pc' = "raised"
            /\ ret' = Raise("ValueError")
       ELSE /\ pc' = "slope"
            /\ ret' = ret
    /\ UNCHANGED <<args, gen, terrain_attributes, events>>

DoSlope ==
    /\ pc = "slope"
    /\ terrain_attributes' = StepSlope(terrain_attributes, dem, attribute)
    /\ events' = IF make_slope(attribute)
                 THEN Append(events, Rd("slope_radians")) ELSE events
    /\ pc' = "aspect"
    /\ UNCHANGED <<args, gen, attribute, ret>>

DoAspect ==
    /\ pc = "aspect"
    /\ terrain_attributes' = StepAspect(terrain_attributes, dem, attribute)
    /\ events' = IF make_aspect(attribute)
                 THEN events \o <<Rd("aspect"), Rd("slope_radians")>>
                 ELSE events
    /\ pc' = "hillshade"
    /\ UNCHANGED <<args, gen, attribute, ret>>

DoHillshade ==
    /\ pc = "hillshade"
    /\ IF HillshadeKeyError(terrain_attributes, attribute)
       THEN /\ pc' = "raised"
            /\ ret' = Raise("KeyError")
            /\ UNCHANGED terrain_attributes
       ELSE /\ pc' = "curvature"
            /\ terrain_attributes' =
                   StepHillshade(terrain_attributes, attribute,
                                 hillshade_altitude, hillshade_azimuth,
                                 hillshade_z_factor)
            /\ ret' = ret
    /\ UNCHANGED <<args, gen, attribute, events>>

DoCurvature ==
    /\ pc = "curvature"
    /\ terrain_attributes' = StepCurvature(terrain_attributes, dem, attribute)
    /\ events' = IF make_curvature(attribute)
                 THEN Append(events, Rd("curvature")) ELSE events
    /\ pc' = "planform_curvature"
    /\ UNCHANGED <<args, gen, attribute, ret>>

DoPlanformCurvature ==
    /\ pc = "planform_curvature"
    /\ terrain_attributes' =
           StepPlanformCurvature(terrain_attributes, dem, attribute)
    /\ events' = IF make_planform_curvature(attribute)
                 THEN Append(events, Rd("planform_curvature")) ELSE events
    /\ pc' = "profile_curvature"
    /\ UNCHANGED <<args, gen, attribute, ret>>

DoProfileCurvature ==
    /\ pc = "profile_curvature"
    /\ terrain_attributes' =
           StepProfileCurvature(terrain_attributes, dem, attribute)
    /\ events' = IF make_profile_curvature(attribute)
                 THEN Append(events, Rd("profile_curvature")) ELSE events
    /\ pc' = "convert"
    /\ UNCHANGED <<args, gen, attribute, ret>>

DoConvert ==
    /\ pc = "convert"
    /\ terrain_attributes' = ConvertUnit(terrain_attributes, degrees)
    /\ pc' = "output"
    /\ UNCHANGED <<args, gen, attribute, ret, events>>

DoOutput ==
    /\ pc = "output"
    /\ ret' = Output(terrain_attributes, dem, attribute)
    /\ pc' = IF ret'.kind = "raise" THEN "raised" ELSE "returned"
    /\ UNCHANGED <<args, gen, attribute, terrain_attributes, events>>

Next ==
    \/ Enter
    \/ DoSlope
    \/ DoAspect
    \/ DoHillshade
    \/ DoCurvature
    \/ DoPlanformCurvature
    \/ DoProfileCurvature
    \/ DoConvert
    \/ DoOutput

Spec == Init /\ [][Next]_vars

---------------------------------------------------------------------------
(* The script: the main block and generate_ground_truth_richdem.           *)

\* xDEM attribute name : RichDEM attribute name, degrees.  An entry whose
\* value is a plain name (isTuple FALSE) carries no degrees flag of its own.
Entry(key, name, isTuple, deg) ==
    [key |-> key, name |-> name, isTuple |-> isTuple, degrees |-> deg]

attributes_richdem ==
    << Entry("slope_Horn", "slope", TRUE, TRUE),
       Entry("aspect_Horn", "aspect", TRUE, TRUE),
       Entry("hillshade_Horn", "hillshade", FALSE, FALSE),
       Entry("curvature", "curvature", FALSE, FALSE),
       Entry("profile_curvature", "profile_curvature", FALSE, FALSE),
       Entry("planform_curvature", "planform_curvature", TRUE, TRUE) >>

\* The dictionaries the generator is run on: the script's, and others a
\* caller may pass.
DictSamples ==
    { attributes_richdem,
      <<>>,
      << Entry("slope_rad", "slope", TRUE, FALSE),
         Entry("aspect_Horn", "aspect", FALSE, FALSE) >>,
      << Entry("curvature", "curvature", FALSE, FALSE),
         Entry("max_curvature", "maximum_curvature", FALSE, FALSE),
         Entry("slope_Horn", "slope", TRUE, TRUE) >> }

\* The defaults of get_terrain_attribute_richdem's parameters.
DefaultDegrees  == TRUE
DefaultAltitude == 45 * Scale
DefaultAzimuth  == 315 * Scale
DefaultZFactor  == 1 * Scale

\* No DEM has been loaded yet.
NoDem == [isRaster |-> FALSE, cells |-> <<>>]

\* gu.Raster(filepath, load_data=True): the rasters a file may hold.
LoadedDems == { d \in DemSamples : d.isRaster }

\* Faulty variant of SavePath: the file is named after the RichDEM attribute.
SavePathByName(key, name) == <<name, "tif">>

\* os.path.join(save_dir, f"{attribute}.tif"), within save_dir.
SavePath(key, name) == <<key, "tif">>

\* Faulty variant of AfterRaise: the exception is swallowed and the body runs again.
AfterRaiseRetry == "call"

\* Where control goes when a statement of the loop body raises: the loop
\* has no try block, the exception leaves the function and the script.
AfterRaise == "crashed"

\* Faulty variant of AfterCall: the result is not saved before the next call.
AfterCallNoSave == "call"

\* Where control goes when the call of the loop body has returned.
AfterCall == "save"

\* for attribute, value in attribute_dict.items(): the next iteration, or
\* the end of the loop.
LoopPc(i) == IF i > Len(attribute_dict) THEN "finished" ELSE "call"

\* What a save that failed may leave at its path.
PartialFile == [data |-> <<>>, nodata |-> OutNoData]

InitGen ==
    /\ pc = "main"
    /\ dem = NoDem
    /\ attribute_dict \in DictSamples
    /\ idx = 0
    /\ files = EmptyDict
    /\ attribute = List(<<>>)
    /\ degrees = DefaultDegrees
    /\ hillshade_altitude = DefaultAltitude
    /\ hillshade_azimuth = DefaultAzimuth
    /\ hillshade_z_factor = DefaultZFactor
    /\ terrain_attributes = EmptyDict
    /\ ret = NoReturn
    /\ events = <<>>

Ev(op, key) == [op |-> op, key |-> key]

hillshade_args == <<hillshade_altitude, hillshade_azimuth, hillshade_z_factor>>

\* dem = gu.Raster(filepath, load_data=True)
MainLoad ==
    /\ pc = "main"
    /\ \/ /\ dem' \in LoadedDems
          /\ events' = Append(events, Ev("load", ""))
          /\ pc' = "makedirs"
          /\ ret' = ret
       \/ /\ ret' = Raise("FileNotFoundError")
          /\ pc' = "crashed"
          /\ UNCHANGED <<dem, events>>
    /\ UNCHANGED <<attribute, degrees, hillshade_args, terrain_attributes, gen>>

\* os.makedirs(save_dir, exist_ok=True), and the loop's first iteration.
GenMakedirs ==
    /\ pc = "makedirs"
    /\ \/ /\ idx' = 1
          /\ pc' = LoopPc(1)
          /\ ret' = ret
       \/ /\ ret' = Raise("OSError")
          /\ pc' = "crashed"
          /\ idx' = idx
    /\ UNCHANGED <<dem, attribute, degrees, hillshade_args, terrain_attributes,
                   attribute_dict, files, events>>

\* The call of get_terrain_attribute_richdem for the current key.
GenCall ==
    /\ pc = "call"
    /\ LET e == attribute_dict[idx]
           d == IF e.isTuple THEN e.degrees ELSE DefaultDegrees
       IN  /\ attribute' = Str(e.name)
           /\ degrees' = d
           /\ events' = Append(events, Ev("compute", e.key))
           /\ \/ /\ ret' = get_terrain_attribute_richdem(
                               dem, Str(e.name), d, DefaultAltitude,
                               DefaultAzimuth, DefaultZFactor)
                 /\ pc' = IF ret'.kind = "raise" THEN AfterRaise ELSE AfterCall
              \/ /\ ret' = Raise("RichDEMError")
                 /\ pc' = AfterRaise
    /\ UNCHANGED <<dem, hillshade_args, terrain_attributes, gen>>

\* terrain_attribute.save(save_path), and the loop's next iteration.
GenSave ==
    /\ pc = "save"
    /\ LET e == attribute_dict[idx]
           save_path == SavePath(e.key, e.name)
       IN  \/ /\ files' = Put(files, save_path, ret.out[1])
              /\ events' = Append(events, Ev("save", e.key))
              /\ idx' = idx + 1
              /\ pc' = LoopPc(idx + 1)
              /\ ret' = ret
           \/ /\ \E partial \in BOOLEAN :
                    files' = IF partial THEN Put(files, save_path, PartialFile)
                             ELSE files
              /\ ret' = Raise("IOError")
              /\ pc' = AfterRaise
              /\ UNCHANGED <<idx, events>>
    /\ UNCHANGED <<dem, attribute, degrees, hillshade_args, terrain_attributes,
                   attribute_dict>>

NextGen ==
    \/ MainLoad
    \/ GenMakedirs
    \/ GenCall
    \/ GenSave

SpecGen == InitGen /\ [][NextGen]_vars

---------------------------------------------------------------------------
(* Properties of one call of get_terrain_attribute_richdem (Spec).         *)

Requested(name) == In(name, attribute.names)

\* The positions of a name in the request.
PositionsOf(name) == { i \in 1..Len(attribute.names) : attribute.names[i] = name }

\* C1: whatever the attribute request, a call whose dem is not a geoutils
\* Raster gets no further than the type check: it raises ValueError, with
\* no terrain attribute computed and nothing returned.
C1_NonRasterRaisesValueError ==
    ~dem.isRaster =>
        /\ pc \in {"enter", "raised"}
        /\ terrain_attributes = EmptyDict
        /\ events = <<>>
        /\ ret = IF pc = "raised" THEN Raise("ValueError") ELSE NoReturn

C1_Witness ==
    /\ ~dem.isRaster
    /\ pc = "raised"
    /\ ret.exc = "ValueError"
    /\ Requested("hillshade")

\* C5: the slope intermediate is there once the slope block has run,
\* whenever aspect or hillshade is requested; the aspect intermediate is
\* there once the aspect block has run, whenever hillshade is requested; so
\* the hillshade block never reads an absent slope or aspect.
C5_IntermediatesBeforeUse ==
    dem.isRaster =>
        /\ (pc \notin {"enter", "slope"}
            /\ (Requested("aspect") \/ Requested("hillshade")))
           => "slope" \in DOMAIN terrain_attributes
        /\ (pc \notin {"enter", "slope", "aspect"} /\ Requested("hillshade"))
           => "aspect" \in DOMAIN terrain_attributes
        /\ (pc \notin {"enter", "slope", "aspect", "hillshade"}
            /\ Requested("hillshade"))
           => "hillshade" \in DOMAIN terrain_attributes

C5_Witness ==
    /\ dem.isRaster
    /\ pc = "curvature"
    /\ attribute.names = <<"hillshade">>
    /\ DOMAIN terrain_attributes = {"slope", "aspect", "hillshade"}

\* C6: in the aspect returned, a cell whose slope is exactly 0 has aspect pi
\* (180 with degrees), whatever RichDEM returned for it, and any other cell
\* has RichDEM's aspect in the requested unit.
C6_FlatAspectIsPi ==
    pc = "returned" =>
        \A i \in PositionsOf("aspect") : \A j \in 1..Len(dem.cells) :
            LET s   == dem.cells[j].slope_radians
                a   == dem.cells[j].aspect
                out == ret.out[i].data[j]
            IN  IF s = 0
                THEN out = IF degrees THEN 180 * Scale ELSE Pi
                ELSE out = IF a = RdNoData THEN NaN
                           ELSE IF degrees THEN Rad2Deg(Deg2Rad(a))
                           ELSE Deg2Rad(a)

C6_Witness ==
    /\ pc = "returned"
    /\ degrees
    /\ \E i \in PositionsOf("aspect") : \E j \in 1..Len(dem.cells) :
          /\ dem.cells[j].slope_radians = 0
          /\ dem.cells[j].aspect = 90 * Scale
          /\ ret.out[i].data[j] = 180 * Scale

\* C7: every hillshade value returned that is not NaN lies between 1 and
\* 255, so that 0 is never the value of a valid cell.
C7_HillshadeBetween1And255 ==
    pc = "returned" =>
        \A i \in PositionsOf("hillshade") : \A j \in 1..Len(dem.cells) :
            LET out == ret.out[i].data[j]
            IN  out # NaN => (1 * Scale <= out /\ out <= 255 * Scale)

\* C8: on a Raster, every requested name of the dependency lookup has its
\* entry in the intermediate table when the output is built, so no call
\* ends with a KeyError.
C8_RecognisedNamesYieldOutput ==
    dem.isRaster =>
        /\ pc = "output" =>
              \A i \in 1..Len(attribute.names) :
                  attribute.names[i] \in DOMAIN terrain_attributes
        /\ ret.exc # "KeyError"

\* C9: the unit conversion comes after the hillshade block, which reads the
\* slope and the aspect in radians, and every output other than slope and
\* aspect is the one the same call returns with the degrees flag negated.
C9_DegreesOnlySlopeAspect ==
    /\ (pc \in {"curvature", "planform_curvature", "profile_curvature", "convert"}
        /\ "slope" \in DOMAIN terrain_attributes)
       => terrain_attributes["slope"] = get_terrainattr_richdem(dem, "slope_radians")
    /\ pc = "returned" =>
          LET other == get_terrain_attribute_richdem(
                           dem, attribute, ~degrees, hillshade_altitude,
                           hillshade_azimuth, hillshade_z_factor)
          IN  /\ other.kind = ret.kind
              /\ \A i \in 1..Len(attribute.names) :
                    attribute.names[i] \notin {"slope", "aspect"}
                    => ret.out[i] = other.out[i]

C9_Witness ==
    /\ pc = "returned"
    /\ degrees
    /\ attribute.names = <<"slope", "hillshade">>
    /\ \E j \in 1..Len(dem.cells) :
          /\ dem.cells[j].slope_radians = 1047
          /\ ret.out[1].data[j] # 1047
          /\ ret.out[2].data[j] \notin {NaN, 0}

---------------------------------------------------------------------------
(* Properties of a run of the generator (SpecGen).                         *)

\* The raster a call for entry e of the dictionary returns on the loaded DEM.
AttributeOf(e) ==
    get_terrain_attribute_richdem(
        dem, Str(e.name), IF e.isTuple THEN e.degrees ELSE TRUE,
        45 * Scale, 315 * Scale, 1 * Scale).out[1]

\* The operations of the history on a key.
EventsOn(op, key) ==
    { i \in 1..Len(events) : events[i].op = op /\ events[i].key = key }

C3_NoComputeAfterFirstWrite ==
    /\ \A i \in 1..Len(events) :
          events[i].op = "compute" => \E j \in 1..(i - 1) : events[j].op = "load"
    /\ \A i, j \in 1..Len(events) :
          (i < j /\ events[i].op = "save") => events[j].op # "compute"

\* C3, amended: the DEM is loaded before any attribute is computed, and the
\* attributes are then computed and written one key at a time, in the order
\* of the dictionary: each is written right after it is computed and before
\* the next one is computed.
C3_ComputeThenSavePerKey ==
    \A i \in 1..Len(events) :
        IF i = 1 THEN events[i] = Ev("load", "")
        ELSE IF i % 2 = 0
             THEN events[i] = Ev("compute", attribute_dict[i \div 2].key)
             ELSE events[i] = Ev("save", attribute_dict[i \div 2].key)

C3_Witness ==
    /\ Len(events) >= 5
    /\ events[3].op = "save"
    /\ events[4].op = "compute"
    /\ events[5].op = "save"
    /\ Cardinality(DOMAIN files) = 2

\* C4: when computing or saving the attribute of a key fails, the exception
\* leaves the generator: that attribute is not tried again, no later key is
\* computed or written, and the files of the earlier keys stay as written.
C4_FailurePropagates ==
    (ret.kind = "raise" /\ idx >= 1) =>
        /\ pc = "crashed"
        /\ Cardinality(EventsOn("compute", attribute_dict[idx].key)) = 1
        /\ EventsOn("save", attribute_dict[idx].key) = {}
        /\ \A j \in (idx + 1)..Len(attribute_dict) :
              /\ EventsOn("compute", attribute_dict[j].key) = {}
              /\ EventsOn("save", attribute_dict[j].key) = {}
              /\ <<attribute_dict[j].key, "tif">> \notin DOMAIN files
        /\ \A j \in 1..(idx - 1) :
              /\ <<attribute_dict[j].key, "tif">> \in DOMAIN files
              /\ files[<<attribute_dict[j].key, "tif">>] = AttributeOf(attribute_dict[j])

C4_Witness ==
    /\ pc = "crashed"
    /\ ret.exc = "IOError"
    /\ idx = 3
    /\ attribute_dict = attributes_richdem
    /\ <<"slope_Horn", "tif">> \in DOMAIN files
    /\ <<"aspect_Horn", "tif">> \in DOMAIN files

====
